---- MODULE Spec2Model ----
(***************************************************************************)
(* Tegami: an SMTP server that relays the body of each received e-mail to  *)
(* messaging services.  The model follows smtp.go: Session.Data calls      *)
(* ProcessMessage (readMessageBody, readMultipartBody, the break-tag       *)
(* regexp, strings.TrimSpace, convertToMarkdown) and then sends the HTML   *)
(* or the Markdown form to every service of the session.                   *)
(*                                                                         *)
(* A Go string is modelled as a sequence of one-character strings, so the  *)
(* regexp, the trimming and the conversion work on characters.             *)
(***************************************************************************)
EXTENDS Integers, Sequences, FiniteSets, TLC

(***************************************************************************)
(* Bounds of the model.                                                    *)
(***************************************************************************)
\* longest body with break tags, counted in chunks of BodyChunks
MaxChunks == 4
\* longest body with other markup, counted in chunks of MarkupChunks
MaxMarkup == 4
\* longest body with inline markup, counted in chunks of InlineChunks
MaxInline == 3
\* longest body of plain text, counted in chunks of PlainChunks
MaxPlain == 4
\* most parts of a multipart message
MaxParts == 3
\* most Data calls of a run of the server
MaxData == 2
\* most calls of ProcessMessage in a row
MaxSeq == 3
\* most calls of AuthPlain, Mail, Rcpt, Reset and Logout on a session
MaxCommands == 2

(***************************************************************************)
(* Characters and strings.                                                 *)
(***************************************************************************)
CR == "\r"
LF == "\n"
TAB == "\t"
SP == " "

\* unicode.IsSpace restricted to the characters of the model
IsSpace(c) == c \in {SP, TAB, CR, LF}

\* unicode.ToLower on the letters of the model (the (?i) flag folds case)
ToLower(c) ==
  CASE c = "B" -> "b"
    [] c = "R" -> "r"
    [] OTHER -> c

RECURSIVE Concat(_)
\* concatenation of a sequence of strings
Concat(ss) == IF ss = <<>> THEN <<>> ELSE Head(ss) \o Concat(Tail(ss))

RECURSIVE TrimLeft(_)
TrimLeft(s) ==
  IF s = <<>> THEN <<>>
  ELSE IF IsSpace(Head(s)) THEN TrimLeft(Tail(s)) ELSE s

RECURSIVE TrimRight(_)
TrimRight(s) ==
  IF s = <<>> THEN <<>>
  ELSE IF IsSpace(s[Len(s)]) THEN TrimRight(SubSeq(s, 1, Len(s) - 1)) ELSE s

\* trimming at the end only
TrimSpaceRightOnly(s) == TrimRight(s)

\* strings.TrimSpace
TrimSpace(s) == TrimRight(TrimLeft(s))

\* does the literal lit (lower case) occur in s at position i, ignoring case
HasFoldAt(s, i, lit) ==
  /\ i + Len(lit) - 1 <= Len(s)
  /\ \A k \in 1..Len(lit) : ToLower(s[i + k - 1]) = lit[k]

\* the two alternatives of the regexp (?i)<br>|<br />
BrPlain == <<"<", "b", "r", ">">>
BrSpaced == <<"<", "b", "r", " ", "/", ">">>

\* the regexp without its (?i) flag: <br>|<br />
breakRegexMatchCaseSensitive(s, i) ==
  LET at(lit) == /\ i + Len(lit) - 1 <= Len(s)
                 /\ \A k \in 1..Len(lit) : s[i + k - 1] = lit[k]
  IN IF at(BrPlain) THEN Len(BrPlain)
     ELSE IF at(BrSpaced) THEN Len(BrSpaced)
     ELSE 0

\* length of the match of breakRegex that starts at position i of s, 0 if none
breakRegexMatch(s, i) ==
  IF HasFoldAt(s, i, BrPlain) THEN Len(BrPlain)
  ELSE IF HasFoldAt(s, i, BrSpaced) THEN Len(BrSpaced)
  ELSE 0

RECURSIVE ReplaceAllFrom(_, _)
ReplaceAllFrom(s, i) ==
  IF i > Len(s) THEN <<>>
  ELSE IF breakRegexMatch(s, i) > 0
       THEN <<LF>> \o ReplaceAllFrom(s, i + breakRegexMatch(s, i))
       ELSE <<s[i]>> \o ReplaceAllFrom(s, i + 1)

\* breakRegex.ReplaceAllString(body, "\n")
ReplaceBreaks(s) == ReplaceAllFrom(s, 1)

(***************************************************************************)
(* convertToMarkdown: md.NewConverter("", true, nil).ConvertString(body).  *)
(* The converter is the html-to-markdown library; it is modelled by what   *)
(* it does to the markup of the model: the HTML tokenizer turns CR LF and  *)
(* CR into LF; in text, runs of tabs and of spaces become one space; a     *)
(* break tag gives two newlines, <b>/<strong> give **, <i>/<em> give _,    *)
(* <h1> gives a "# " line between blank lines; the result is trimmed, two  *)
(* or more newlines become two, and spaces at the end of a line go.  The   *)
(* delimiters are put where the tags stand.                                *)
(***************************************************************************)
RECURSIVE convertNewlines(_)
convertNewlines(s) ==
  IF s = <<>> THEN <<>>
  ELSE IF Head(s) = CR
       THEN IF Len(s) >= 2 /\ s[2] = LF
            THEN <<LF>> \o convertNewlines(Tail(Tail(s)))
            ELSE <<LF>> \o convertNewlines(Tail(s))
       ELSE <<Head(s)>> \o convertNewlines(Tail(s))

RECURSIVE collapseSpaces(_, _)
\* tabR then multipleSpacesR: prev tells whether the last character was a
\* space or a tab
collapseSpaces(s, prev) ==
  IF s = <<>> THEN <<>>
  ELSE IF Head(s) \in {SP, TAB}
       THEN IF prev THEN collapseSpaces(Tail(s), TRUE)
            ELSE <<SP>> \o collapseSpaces(Tail(s), TRUE)
       ELSE <<Head(s)>> \o collapseSpaces(Tail(s), FALSE)

\* the rules with the asterisk as the delimiter of emphasis
MarkdownRulesAsterisk ==
  << [tag |-> <<"<", "b", "r", ">">>,            md |-> <<LF, LF>>],
     [tag |-> <<"<", "b", "r", "/", ">">>,       md |-> <<LF, LF>>],
     [tag |-> <<"<", "b", "r", " ", "/", ">">>,  md |-> <<LF, LF>>],
     [tag |-> <<"<", "b", ">">>,                 md |-> <<"*", "*">>],
     [tag |-> <<"<", "/", "b", ">">>,            md |-> <<"*", "*">>],
     [tag |-> <<"<", "s", "t", "r", "o", "n", "g", ">">>,      md |-> <<"*", "*">>],
     [tag |-> <<"<", "/", "s", "t", "r", "o", "n", "g", ">">>, md |-> <<"*", "*">>],
     [tag |-> <<"<", "i", ">">>,                 md |-> <<"*">>],
     [tag |-> <<"<", "/", "i", ">">>,            md |-> <<"*">>],
     [tag |-> <<"<", "e", "m", ">">>,            md |-> <<"*">>],
     [tag |-> <<"<", "/", "e", "m", ">">>,       md |-> <<"*">>],
     [tag |-> <<"<", "h", "1", ">">>,            md |-> <<LF, LF, "#", SP>>],
     [tag |-> <<"<", "/", "h", "1", ">">>,       md |-> <<LF, LF>>] >>

\* the tags the converter knows (lower case) and what each one is rendered as
MarkdownRules ==
  << [tag |-> <<"<", "b", "r", ">">>,            md |-> <<LF, LF>>],
     [tag |-> <<"<", "b", "r", "/", ">">>,       md |-> <<LF, LF>>],
     [tag |-> <<"<", "b", "r", " ", "/", ">">>,  md |-> <<LF, LF>>],
     [tag |-> <<"<", "b", ">">>,                 md |-> <<"*", "*">>],
     [tag |-> <<"<", "/", "b", ">">>,            md |-> <<"*", "*">>],
     [tag |-> <<"<", "s", "t", "r", "o", "n", "g", ">">>,      md |-> <<"*", "*">>],
     [tag |-> <<"<", "/", "s", "t", "r", "o", "n", "g", ">">>, md |-> <<"*", "*">>],
     [tag |-> <<"<", "i", ">">>,                 md |-> <<"_">>],
     [tag |-> <<"<", "/", "i", ">">>,            md |-> <<"_">>],
     [tag |-> <<"<", "e", "m", ">">>,            md |-> <<"_">>],
     [tag |-> <<"<", "/", "e", "m", ">">>,       md |-> <<"_">>],
     [tag |-> <<"<", "h", "1", ">">>,            md |-> <<LF, LF, "#", SP>>],
     [tag |-> <<"<", "/", "h", "1", ">">>,       md |-> <<LF, LF>>] >>

\* index of the rule whose tag starts at position i of s, 0 if none
RuleAt(s, i) ==
  LET hits == {k \in 1..Len(MarkdownRules) : HasFoldAt(s, i, MarkdownRules[k].tag)}
  IN IF hits = {} THEN 0 ELSE CHOOSE k \in hits : \A j \in hits : k <= j

RECURSIVE renderTags(_, _)
renderTags(s, i) ==
  IF i > Len(s) THEN <<>>
  ELSE IF RuleAt(s, i) > 0
       THEN MarkdownRules[RuleAt(s, i)].md
              \o renderTags(s, i + Len(MarkdownRules[RuleAt(s, i)].tag))
       ELSE <<s[i]>> \o renderTags(s, i + 1)

RECURSIVE collapseNewlines(_, _)
\* multipleNewLinesRegex [\n]{2,} replaced by two newlines: run counts the
\* newlines already kept of the current run
collapseNewlines(s, run) ==
  IF s = <<>> THEN <<>>
  ELSE IF Head(s) = LF
       THEN IF run >= 2 THEN collapseNewlines(Tail(s), run)
            ELSE <<LF>> \o collapseNewlines(Tail(s), run + 1)
       ELSE <<Head(s)>> \o collapseNewlines(Tail(s), 0)

RECURSIVE TrimTrailingSpaces(_)
\* spaces and tabs before a newline or at the end are dropped
TrimTrailingSpaces(s) ==
  IF s = <<>> THEN <<>>
  ELSE LET rest == TrimTrailingSpaces(Tail(s))
       IN IF Head(s) \in {SP, TAB} /\ (rest = <<>> \/ Head(rest) = LF)
          THEN rest
          ELSE <<Head(s)>> \o rest

\* Converter.ConvertString on a document the parser accepts
ConvertString(s) ==
  TrimTrailingSpaces(
    collapseNewlines(
      TrimSpace(renderTags(collapseSpaces(convertNewlines(s), FALSE), 1)), 0))

\* convertToMarkdown(body); convOk tells whether ConvertString returns no error
convertToMarkdown(body, convOk) ==
  IF ~convOk THEN [md |-> <<>>, err |-> "convert"]
  ELSE [md |-> ConvertString(body), err |-> "nil"]

(***************************************************************************)
(* Messages.  message.Read either fails (wellFormed = FALSE) or gives an   *)
(* entity.  A single-part entity has a body, which io.ReadAll may fail to  *)
(* read (bodyReadOk).  A multipart entity has parts in serialized order,   *)
(* each with its content type, its content and whether its body can be     *)
(* read; closed tells whether the closing boundary follows the last part   *)
(* (NextPart returns io.EOF) or the input ends there (NextPart fails).     *)
(* convOk is the outcome of the converter for this message, contentType    *)
(* the Content-Type the header of the message declares ("" if none).       *)
(***************************************************************************)
TextPlain == "text/plain"
TextHtml == "text/html"

SinglePart(body, bodyReadOk, convOk) ==
  [wellFormed |-> TRUE, multipart |-> FALSE, body |-> body,
   bodyReadOk |-> bodyReadOk, parts |-> <<>>, closed |-> TRUE, convOk |-> convOk,
   contentType |-> ""]

\* message m with the declared Content-Type ct
WithContentType(m, ct) == [m EXCEPT !.contentType = ct]

Multipart(parts, closed, convOk) ==
  [wellFormed |-> TRUE, multipart |-> TRUE, body |-> <<>>,
   bodyReadOk |-> TRUE, parts |-> parts, closed |-> closed, convOk |-> convOk,
   contentType |-> "multipart/mixed"]

Malformed ==
  [wellFormed |-> FALSE, multipart |-> FALSE, body |-> <<>>,
   bodyReadOk |-> TRUE, parts |-> <<>>, closed |-> TRUE, convOk |-> TRUE,
   contentType |-> ""]

Part(contentType, content, readOk) ==
  [contentType |-> contentType, content |-> content, readOk |-> readOk]

(***************************************************************************)
(* readMultipartBody: the loop over mr.NextPart(), from part i on, with    *)
(* messageBody the strings.Builder.                                        *)
(***************************************************************************)
RECURSIVE NextPartLoopNoReset(_, _, _)
\* the loop without messageBody.Reset(): the HTML part is appended to the
\* plain text read so far
NextPartLoopNoReset(m, i, messageBody) ==
  IF i > Len(m.parts)
  THEN IF m.closed
       THEN [body |-> messageBody, err |-> "nil"]
       ELSE [body |-> <<>>, err |-> "parse"]
  ELSE LET p == m.parts[i]
       IN IF p.contentType = TextPlain \/ p.contentType = TextHtml
          THEN IF ~p.readOk
               THEN [body |-> <<>>, err |-> "read"]
               ELSE IF p.contentType = TextHtml
                    THEN [body |-> messageBody \o p.content, err |-> "nil"]
                    ELSE NextPartLoopNoReset(m, i + 1, messageBody \o p.content)
          ELSE NextPartLoopNoReset(m, i + 1, messageBody)

RECURSIVE NextPartLoopNoBreak(_, _, _)
\* the loop without the break after the HTML part: it goes on to the
\* parts that follow
NextPartLoopNoBreak(m, i, messageBody) ==
  IF i > Len(m.parts)
  THEN IF m.closed
       THEN [body |-> messageBody, err |-> "nil"]
       ELSE [body |-> <<>>, err |-> "parse"]
  ELSE LET p == m.parts[i]
       IN IF p.contentType = TextPlain \/ p.contentType = TextHtml
          THEN IF ~p.readOk
               THEN [body |-> <<>>, err |-> "read"]
               ELSE IF p.contentType = TextHtml
                    THEN NextPartLoopNoBreak(m, i + 1, p.content)
                    ELSE NextPartLoopNoBreak(m, i + 1, messageBody \o p.content)
          ELSE NextPartLoopNoBreak(m, i + 1, messageBody)

RECURSIVE NextPartLoopReadsAll(_, _, _)
\* the loop without the test of the content type: every part that is not
\* text/html is read as text/plain is
NextPartLoopReadsAll(m, i, messageBody) ==
  IF i > Len(m.parts)
  THEN IF m.closed
       THEN [body |-> messageBody, err |-> "nil"]
       ELSE [body |-> <<>>, err |-> "parse"]
  ELSE LET p == m.parts[i]
       IN IF TRUE
          THEN IF ~p.readOk
               THEN [body |-> <<>>, err |-> "read"]
               ELSE IF p.contentType = TextHtml
                    THEN LET reset == IF Len(messageBody) > 0 THEN <<>>
                                      ELSE messageBody
                         IN [body |-> reset \o p.content, err |-> "nil"]
                    ELSE NextPartLoopReadsAll(m, i + 1, messageBody \o p.content)
          ELSE NextPartLoopReadsAll(m, i + 1, messageBody)

RECURSIVE NextPartLoopFirstPlain(_, _, _)
\* the loop keeping the first text/plain part only
NextPartLoopFirstPlain(m, i, messageBody) ==
  IF i > Len(m.parts)
  THEN IF m.closed
       THEN [body |-> messageBody, err |-> "nil"]
       ELSE [body |-> <<>>, err |-> "parse"]
  ELSE LET p == m.parts[i]
       IN IF p.contentType = TextPlain \/ p.contentType = TextHtml
          THEN IF ~p.readOk
               THEN [body |-> <<>>, err |-> "read"]
               ELSE IF p.contentType = TextHtml
                    THEN LET reset == IF Len(messageBody) > 0 THEN <<>>
                                      ELSE messageBody
                         IN [body |-> reset \o p.content, err |-> "nil"]
                    ELSE NextPartLoopFirstPlain(m, i + 1, IF Len(messageBody) > 0 THEN messageBody ELSE p.content)
          ELSE NextPartLoopFirstPlain(m, i + 1, messageBody)

RECURSIVE NextPartLoopLastPlain(_, _, _)
\* the loop with each text/plain part written over the one before
NextPartLoopLastPlain(m, i, messageBody) ==
  IF i > Len(m.parts)
  THEN IF m.closed
       THEN [body |-> messageBody, err |-> "nil"]
       ELSE [body |-> <<>>, err |-> "parse"]
  ELSE LET p == m.parts[i]
       IN IF p.contentType = TextPlain \/ p.contentType = TextHtml
          THEN IF ~p.readOk
               THEN [body |-> <<>>, err |-> "read"]
               ELSE IF p.contentType = TextHtml
                    THEN LET reset == IF Len(messageBody) > 0 THEN <<>>
                                      ELSE messageBody
                         IN [body |-> reset \o p.content, err |-> "nil"]
                    ELSE NextPartLoopLastPlain(m, i + 1, p.content)
          ELSE NextPartLoopLastPlain(m, i + 1, messageBody)

RECURSIVE NextPartLoopHtmlOnly(_, _, _)
\* the loop reading text/html parts only
NextPartLoopHtmlOnly(m, i, messageBody) ==
  IF i > Len(m.parts)
  THEN IF m.closed
       THEN [body |-> messageBody, err |-> "nil"]
       ELSE [body |-> <<>>, err |-> "parse"]
  ELSE LET p == m.parts[i]
       IN IF p.contentType = TextHtml
          THEN IF ~p.readOk
               THEN [body |-> <<>>, err |-> "read"]
               ELSE IF p.contentType = TextHtml
                    THEN LET reset == IF Len(messageBody) > 0 THEN <<>>
                                      ELSE messageBody
                         IN [body |-> reset \o p.content, err |-> "nil"]
                    ELSE NextPartLoopHtmlOnly(m, i + 1, messageBody \o p.content)
          ELSE NextPartLoopHtmlOnly(m, i + 1, messageBody)

RECURSIVE NextPartLoop(_, _, _)
NextPartLoop(m, i, messageBody) ==
  IF i > Len(m.parts)
  THEN IF m.closed
       THEN [body |-> messageBody, err |-> "nil"]
       ELSE [body |-> <<>>, err |-> "parse"]
  ELSE LET p == m.parts[i]
       IN IF p.contentType = TextPlain \/ p.contentType = TextHtml
          THEN IF ~p.readOk
               THEN [body |-> <<>>, err |-> "read"]
               ELSE IF p.contentType = TextHtml
                    THEN LET reset == IF Len(messageBody) > 0 THEN <<>>
                                      ELSE messageBody
                         IN [body |-> reset \o p.content, err |-> "nil"]
                    ELSE NextPartLoop(m, i + 1, messageBody \o p.content)
          ELSE NextPartLoop(m, i + 1, messageBody)

readMultipartBody(m) ==
  IF ~m.multipart
  THEN [body |-> <<>>, err |-> "IsNotMultipartError"]
  ELSE NextPartLoop(m, 1, <<>>)

\* readMessageBody returning every error of readMultipartBody
readMessageBodyNoFallback(m) ==
  IF ~m.wellFormed
  THEN [body |-> <<>>, err |-> "parse"]
  ELSE LET mp == readMultipartBody(m)
       IN IF mp.err # "nil"
          THEN [body |-> <<>>, err |-> mp.err]
          ELSE [body |-> mp.body, err |-> "nil"]

readMessageBody(m) ==
  IF ~m.wellFormed
  THEN [body |-> <<>>, err |-> "parse"]
  ELSE LET mp == readMultipartBody(m)
       IN IF mp.err # "nil" /\ mp.err # "IsNotMultipartError"
          THEN [body |-> <<>>, err |-> mp.err]
          ELSE IF mp.err = "nil"
               THEN [body |-> mp.body, err |-> "nil"]
               ELSE IF ~m.bodyReadOk
                    THEN [body |-> <<>>, err |-> "read"]
                    ELSE [body |-> m.body, err |-> "nil"]

\* ProcessMessage without strings.TrimSpace
ProcessMessageNoTrim(m) ==
  LET rb == readMessageBody(m)
  IN IF rb.err # "nil"
     THEN [html |-> <<>>, markdown |-> <<>>, err |-> rb.err]
     ELSE LET body == ReplaceBreaks(rb.body)
              conv == convertToMarkdown(body, m.convOk)
          IN [html |-> body, markdown |-> conv.md, err |-> conv.err]

\* ProcessMessage turning CR LF into LF before anything else
ProcessMessageLfOnly(m) ==
  LET rb == readMessageBody(m)
  IN IF rb.err # "nil"
     THEN [html |-> <<>>, markdown |-> <<>>, err |-> rb.err]
     ELSE LET trimmedBody == TrimSpace(ReplaceBreaks(convertNewlines(rb.body)))
              conv == convertToMarkdown(trimmedBody, m.convOk)
          IN [html |-> trimmedBody, markdown |-> conv.md, err |-> conv.err]

\* ProcessMessage returning the trimmed body as the Markdown form too
ProcessMessageNoConvert(m) ==
  LET rb == readMessageBody(m)
  IN IF rb.err # "nil"
     THEN [html |-> <<>>, markdown |-> <<>>, err |-> rb.err]
     ELSE LET trimmedBody == TrimSpace(ReplaceBreaks(rb.body))
          IN [html |-> trimmedBody, markdown |-> trimmedBody,
              err |-> IF m.convOk THEN "nil" ELSE "convert"]

\* ProcessMessage converting the body only if the message declares
\* text/html or is multipart
ProcessMessageByDeclaredType(m) ==
  LET rb == readMessageBody(m)
  IN IF rb.err # "nil"
     THEN [html |-> <<>>, markdown |-> <<>>, err |-> rb.err]
     ELSE LET trimmedBody == TrimSpace(ReplaceBreaks(rb.body))
              conv == convertToMarkdown(trimmedBody, m.convOk)
          IN IF m.multipart \/ m.contentType = TextHtml
             THEN [html |-> trimmedBody, markdown |-> conv.md, err |-> conv.err]
             ELSE [html |-> trimmedBody, markdown |-> trimmedBody, err |-> "nil"]

\* ProcessMessage: the HTML form, the Markdown form and the error
ProcessMessage(m) ==
  LET rb == readMessageBody(m)
  IN IF rb.err # "nil"
     THEN [html |-> <<>>, markdown |-> <<>>, err |-> rb.err]
     ELSE LET trimmedBody == TrimSpace(ReplaceBreaks(rb.body))
              conv == convertToMarkdown(trimmedBody, m.convOk)
          IN [html |-> trimmedBody, markdown |-> conv.md, err |-> conv.err]

(***************************************************************************)
(* The inputs of the model.                                                *)
(***************************************************************************)
\* the pieces bodies with break tags are made of: text, white space and
\* the break tags in their spellings
BodyChunks ==
  { <<"x">>,
    <<SP>>,
    <<CR, LF>>,
    <<"<", "b", "r", ">">>,
    <<"<", "B", "R", ">">>,
    <<"<", "b", "r", " ", "/", ">">>,
    <<"<", "B", "R", " ", "/", ">">>,
    <<"<", "b", "r", "/", ">">> }

\* the pieces bodies with other markup are made of
MarkupChunks ==
  { <<"x">>,
    <<SP>>,
    <<CR, LF>>,
    <<"<", "b", "r", ">">>,
    <<"<", "b", ">", "x", "<", "/", "b", ">">> }

\* the pieces bodies with inline markup and headings are made of
InlineChunks ==
  { <<"x">>,
    <<SP>>,
    <<CR, LF>>,
    <<"<", "b", ">", "y", "<", "/", "b", ">">>,
    <<"<", "s", "t", "r", "o", "n", "g", ">", "y",
      "<", "/", "s", "t", "r", "o", "n", "g", ">">>,
    <<"<", "i", ">", "y", "<", "/", "i", ">">>,
    <<"<", "e", "m", ">", "y", "<", "/", "e", "m", ">">>,
    <<"<", "h", "1", ">", "y", "<", "/", "h", "1", ">">> }

\* the pieces plain-text bodies are made of
PlainChunks == { <<"x">>, <<SP>>, <<TAB>>, <<CR, LF>>, <<LF>> }

\* contents of the parts of multipart messages
PlainContent == <<"p">>
HtmlContent == <<SP, "<", "b", ">", "h", "<", "/", "b", ">", "<", "b", "r", ">">>

PartSet ==
  { Part(ct, c, TRUE) : ct \in {TextPlain, TextHtml}, c \in {PlainContent, HtmlContent} }
    \cup { Part(ct, PlainContent, FALSE) : ct \in {TextPlain, TextHtml} }
    \cup { Part("image/png", PlainContent, TRUE),
           Part("multipart/mixed", HtmlContent, TRUE) }

(***************************************************************************)
(* State.                                                                  *)
(***************************************************************************)
VARIABLES
  msg,        \* the message handed to ProcessMessage
  out,        \* ProcessMessage's locals and results once it has returned
  sessions,   \* the sessions of the backend, by session id
  calls,      \* per service, the Send calls it has received, in order
  messageBody,\* per service, RecorderService.messageBody
  dataCalls,  \* the calls of ProcessMessage so far (those of Data, in the
              \* server), in order: the message of each and what
              \* ProcessMessage returned for it
  telegramService,    \* a TelegramService: its bot and its room
  initReturn,         \* the last call of Init on telegramService
  initServicesReturn, \* the last call of initServices
  server              \* the process started by handleCli: where it is, the
                      \* count initServices gave it and the services of
                      \* its server

\* the state of the start of the program
startup == <<telegramService, initReturn, initServicesReturn, server>>

vars == <<msg, out, sessions, calls, messageBody, dataCalls, startup>>

NotCalled == [done |-> FALSE, body |-> <<>>, html |-> <<>>, markdown |-> <<>>,
              err |-> "nil"]

(***************************************************************************)
(* ProcessMessage on its own: one call on the message msg.                 *)
(***************************************************************************)
CallProcessMessage ==
  /\ ~out.done
  /\ LET r == ProcessMessage(msg)
     IN out' = [done |-> TRUE, body |-> readMessageBody(msg).body,
                html |-> r.html, markdown |-> r.markdown, err |-> r.err]
  /\ UNCHANGED <<msg, sessions, calls, messageBody, dataCalls, startup>>

\* the messages of a row of calls of ProcessMessage: a body with markup
\* under the three declarations of Content-Type, a plain body, messages
\* that fail and a multipart message
MarkupBody ==
  <<"x", SP, "<", "b", ">", "y", "<", "/", "b", ">", "<", "b", "r", ">", "z", CR, LF>>
SeqMessages ==
  { WithContentType(SinglePart(MarkupBody, TRUE, TRUE), ct) :
      ct \in {"", TextPlain, TextHtml} }
    \cup { SinglePart(<<"x">>, TRUE, TRUE),
           SinglePart(<<"x">>, TRUE, FALSE),
           Malformed,
           Multipart(<<Part(TextPlain, PlainContent, TRUE),
                       Part(TextHtml, HtmlContent, TRUE)>>, TRUE, TRUE) }

\* a call of ProcessMessage whose strings.Builder is the one of the call
\* before: the HTML form comes after the one of the last message
ProcessNextSharedBuilder(m) ==
  /\ Len(dataCalls) < MaxSeq
  /\ LET r == ProcessMessage(m)
         last == IF dataCalls = <<>> THEN <<>>
                 ELSE dataCalls[Len(dataCalls)].htmlMessage
     IN dataCalls' = Append(dataCalls, [data |-> m, htmlMessage |-> last \o r.html,
                                        markdownMessage |-> r.markdown,
                                        err |-> r.err])
  /\ UNCHANGED <<msg, out, sessions, calls, messageBody, startup>>

\* one more call of ProcessMessage, on message m
ProcessNext(m) ==
  /\ Len(dataCalls) < MaxSeq
  /\ LET r == ProcessMessage(m)
     IN dataCalls' = Append(dataCalls, [data |-> m, htmlMessage |-> r.html,
                                        markdownMessage |-> r.markdown,
                                        err |-> r.err])
  /\ UNCHANGED <<msg, out, sessions, calls, messageBody, startup>>

(***************************************************************************)
(* The server.  CreateSmtpServer puts the services in the Backend; every   *)
(* AnonymousLogin makes a Session over them.  A RecorderService keeps the   *)
(* last message it was sent and never fails; TelegramService.Send returns  *)
(* the error of the bot, if any.                                           *)
(***************************************************************************)
Recorder(isMarkdownService) ==
  [kind |-> "recorder", isMarkdownService |-> isMarkdownService]

\* TelegramService.IsMarkdownService returns false
Telegram == [kind |-> "telegram", isMarkdownService |-> FALSE]

\* Backend.services
BackendServices == << Recorder(FALSE), Telegram, Recorder(TRUE) >>

ServiceIds == 1..Len(BackendServices)

SessionIds == {"s1", "s2"}

\* the messages the clients send
B(s) == <<"<", "b", ">">> \o s \o <<"<", "/", "b", ">">>
DataMessages ==
  { SinglePart(<<"x">>, TRUE, TRUE),
    SinglePart(<<"x", SP>> \o B(<<"y">>) \o <<CR, LF, "z", CR, LF>>, TRUE, TRUE),
    SinglePart(<<"x">>, TRUE, FALSE),
    Malformed,
    Multipart(<<Part(TextPlain, PlainContent, TRUE),
                Part(TextHtml, HtmlContent, TRUE)>>, TRUE, TRUE),
    Multipart(<<Part("image/png", PlainContent, TRUE)>>, TRUE, TRUE),
    Multipart(<<Part(TextPlain, PlainContent, FALSE)>>, TRUE, TRUE) }

Closed ==
  [pc |-> "closed", services |-> <<>>, id |-> 0, next |-> 0, err |-> "nil",
   log |-> <<>>]

\* the methods of Session besides Data
Commands == {"AuthPlain", "Mail", "Rcpt", "Reset", "Logout"}

\* the methods of Session besides Data, with a Reset that empties the
\* services of the session
SessionCallResetClears(s, op) ==
  /\ sessions[s].pc \in {"ready", "returned"}
  /\ Len(sessions[s].log) < MaxCommands
  /\ sessions' = [sessions EXCEPT ![s] =
                    [@ EXCEPT !.log = Append(@, [op |-> op, err |-> "nil",
                                                 after |-> Len(dataCalls)]),
                              !.services = IF op = "Reset" THEN <<>> ELSE @]]
  /\ UNCHANGED <<msg, out, calls, messageBody, dataCalls, startup>>

\* Session.AuthPlain, Mail, Rcpt, Reset, Logout: each returns nil (Reset
\* returns nothing) and assigns nothing; log keeps the calls made, each
\* with what it returned and the number of Data calls before it
SessionCall(s, op) ==
  /\ sessions[s].pc \in {"ready", "returned"}
  /\ Len(sessions[s].log) < MaxCommands
  /\ sessions' = [sessions EXCEPT ![s] =
                    [@ EXCEPT !.log = Append(@, [op |-> op, err |-> "nil",
                                                 after |-> Len(dataCalls)])]]
  /\ UNCHANGED <<msg, out, calls, messageBody, dataCalls, startup>>

\* Backend.AnonymousLogin
AnonymousLogin(s) ==
  /\ sessions[s].pc = "closed"
  /\ sessions' = [sessions EXCEPT ![s] =
                    [Closed EXCEPT !.pc = "ready", !.services = BackendServices]]
  /\ UNCHANGED <<msg, out, calls, messageBody, dataCalls, startup>>

\* Session.Data without the return on the error of ProcessMessage
DataIgnoresError(s, m) ==
  /\ sessions[s].pc \in {"ready", "returned"}
  /\ Len(dataCalls) < MaxData
  /\ LET r == ProcessMessage(m)
         more == Len(sessions[s].services) > 0
     IN /\ dataCalls' = Append(dataCalls, [data |-> m, htmlMessage |-> r.html,
                                           markdownMessage |-> r.markdown,
                                           err |-> r.err])
        /\ sessions' = [sessions EXCEPT ![s] =
                          [@ EXCEPT !.pc = IF more THEN "sending" ELSE "returned",
                                    !.id = Len(dataCalls) + 1,
                                    !.next = 1,
                                    !.err = r.err]]
  /\ UNCHANGED <<msg, out, calls, messageBody, startup>>

\* Session.Data going on in the loop where the last call of the session left it
DataKeepsPosition(s, m) ==
  /\ sessions[s].pc \in {"ready", "returned"}
  /\ Len(dataCalls) < MaxData
  /\ LET r == ProcessMessage(m)
         first == IF sessions[s].next = 0 THEN 1 ELSE sessions[s].next
         more == r.err = "nil" /\ first <= Len(sessions[s].services)
     IN /\ dataCalls' = Append(dataCalls, [data |-> m, htmlMessage |-> r.html,
                                           markdownMessage |-> r.markdown,
                                           err |-> r.err])
        /\ sessions' = [sessions EXCEPT ![s] =
                          [@ EXCEPT !.pc = IF more THEN "sending" ELSE "returned",
                                    !.id = Len(dataCalls) + 1,
                                    !.next = first,
                                    !.err = r.err]]
  /\ UNCHANGED <<msg, out, calls, messageBody, startup>>

\* Session.Data up to its first Send: ProcessMessage and the error return
Data(s, m) ==
  /\ sessions[s].pc \in {"ready", "returned"}
  /\ Len(dataCalls) < MaxData
  /\ LET r == ProcessMessage(m)
         more == r.err = "nil" /\ Len(sessions[s].services) > 0
     IN /\ dataCalls' = Append(dataCalls, [data |-> m, htmlMessage |-> r.html,
                                           markdownMessage |-> r.markdown,
                                           err |-> r.err])
        /\ sessions' = [sessions EXCEPT ![s] =
                          [@ EXCEPT !.pc = IF more THEN "sending" ELSE "returned",
                                    !.id = Len(dataCalls) + 1,
                                    !.next = 1,
                                    !.err = r.err]]
  /\ UNCHANGED <<msg, out, calls, messageBody, startup>>

\* the choice with its branches exchanged
MessageToSendSwapped(service, htmlMessage, markdownMessage) ==
  IF service.isMarkdownService THEN htmlMessage ELSE markdownMessage

\* the choice of messageToSend in the loop of Session.Data
MessageToSend(service, htmlMessage, markdownMessage) ==
  IF service.isMarkdownService THEN markdownMessage ELSE htmlMessage

\* the loop of Session.Data with htmlMessage and markdownMessage kept in
\* one place for all sessions: a turn sends the forms of the latest Data call
SendSharedLocals(s, ok) ==
  /\ sessions[s].pc = "sending"
  /\ LET i == sessions[s].next
         service == sessions[s].services[i]
         messageToSend == MessageToSend(service,
                                        dataCalls[Len(dataCalls)].htmlMessage,
                                        dataCalls[Len(dataCalls)].markdownMessage)
     IN /\ (service.kind = "recorder" => ok)
        /\ calls' = [calls EXCEPT ![i] =
                       Append(@, [id |-> sessions[s].id, text |-> messageToSend,
                                  ok |-> ok])]
        /\ messageBody' = IF service.kind = "recorder"
                          THEN [messageBody EXCEPT ![i] = messageToSend]
                          ELSE messageBody
        /\ sessions' = [sessions EXCEPT ![s] =
              IF ~ok THEN [@ EXCEPT !.pc = "returned", !.err = "send"]
              ELSE IF i = Len(sessions[s].services)
                   THEN [@ EXCEPT !.pc = "returned", !.next = i + 1]
                   ELSE [@ EXCEPT !.next = i + 1]]
  /\ UNCHANGED <<msg, out, dataCalls, startup>>

\* the loop of Session.Data keeping the error of a failed Send and going
\* on with the services after it
SendContinuesAfterError(s, ok) ==
  /\ sessions[s].pc = "sending"
  /\ LET i == sessions[s].next
         service == sessions[s].services[i]
         messageToSend == MessageToSend(service,
                                        dataCalls[sessions[s].id].htmlMessage,
                                        dataCalls[sessions[s].id].markdownMessage)
         err == IF ok THEN sessions[s].err ELSE "send"
     IN /\ (service.kind = "recorder" => ok)
        /\ calls' = [calls EXCEPT ![i] =
                       Append(@, [id |-> sessions[s].id, text |-> messageToSend,
                                  ok |-> ok])]
        /\ messageBody' = IF service.kind = "recorder"
                          THEN [messageBody EXCEPT ![i] = messageToSend]
                          ELSE messageBody
        /\ sessions' = [sessions EXCEPT ![s] =
              IF i = Len(sessions[s].services)
              THEN [@ EXCEPT !.pc = "returned", !.next = i + 1, !.err = err]
              ELSE [@ EXCEPT !.next = i + 1, !.err = err]]
  /\ UNCHANGED <<msg, out, dataCalls, startup>>

\* one turn of the loop of Session.Data: service.Send(messageToSend), which
\* succeeds (ok) or not, and the return after the last or the failed Send
Send(s, ok) ==
  /\ sessions[s].pc = "sending"
  /\ LET i == sessions[s].next
         service == sessions[s].services[i]
         messageToSend == MessageToSend(service,
                                        dataCalls[sessions[s].id].htmlMessage,
                                        dataCalls[sessions[s].id].markdownMessage)
     IN /\ (service.kind = "recorder" => ok)
        /\ calls' = [calls EXCEPT ![i] =
                       Append(@, [id |-> sessions[s].id, text |-> messageToSend,
                                  ok |-> ok])]
        /\ messageBody' = IF service.kind = "recorder"
                          THEN [messageBody EXCEPT ![i] = messageToSend]
                          ELSE messageBody
        /\ sessions' = [sessions EXCEPT ![s] =
              IF ~ok THEN [@ EXCEPT !.pc = "returned", !.err = "send"]
              ELSE IF i = Len(sessions[s].services)
                   THEN [@ EXCEPT !.pc = "returned", !.next = i + 1]
                   ELSE [@ EXCEPT !.next = i + 1]]
  /\ UNCHANGED <<msg, out, dataCalls, startup>>

(***************************************************************************)
(* The start of the program.  TelegramService.Init reads its flags, makes  *)
(* the bot with telebot.NewBot, which fails or not (newBotOk), and sets    *)
(* bot and room; initServices makes the services and calls Init on each.   *)
(* A nil pointer is the empty sequence, a set one a sequence of one record.*)
(***************************************************************************)
telegramApiUrlFlag == "telegram-api-url"
telegramTokenFlag == "telegram-token"
telegramChatIdFlag == "telegram-chat-id"

Nil == <<>>

\* &TelegramService{}
EmptyTelegramService == [bot |-> Nil, room |-> Nil]

\* Init with the two checks of the flags in the other order
TelegramServiceInitChatIdFirst(s, flags, newBotOk) ==
  LET apiUrl == flags[telegramApiUrlFlag]
      token == flags[telegramTokenFlag]
      chatId == flags[telegramChatIdFlag]
  IN IF Len(chatId) = 0
     THEN [service |-> s, err |-> "telegram chat id not set", newBot |-> FALSE]
     ELSE IF Len(token) = 0
     THEN [service |-> s, err |-> "telegram token not set", newBot |-> FALSE]
     ELSE IF ~newBotOk
     THEN [service |-> s, err |-> "NewBot", newBot |-> TRUE]
     ELSE [service |-> [bot |-> <<[URL |-> apiUrl, Token |-> token]>>,
                        room |-> <<[id |-> chatId]>>],
           err |-> "nil", newBot |-> TRUE]

\* Init setting the room before it makes the bot
TelegramServiceInitRoomFirst(s, flags, newBotOk) ==
  LET apiUrl == flags[telegramApiUrlFlag]
      token == flags[telegramTokenFlag]
      chatId == flags[telegramChatIdFlag]
  IN IF Len(token) = 0
     THEN [service |-> s, err |-> "telegram token not set", newBot |-> FALSE]
     ELSE IF Len(chatId) = 0
     THEN [service |-> s, err |-> "telegram chat id not set", newBot |-> FALSE]
     ELSE IF ~newBotOk
     THEN [service |-> [s EXCEPT !.room = <<[id |-> chatId]>>],
           err |-> "NewBot", newBot |-> TRUE]
     ELSE [service |-> [bot |-> <<[URL |-> apiUrl, Token |-> token]>>,
                        room |-> <<[id |-> chatId]>>],
           err |-> "nil", newBot |-> TRUE]

\* TelegramService.Init on service s: the service after the call, the
\* error returned and whether telebot.NewBot was called
TelegramServiceInit(s, flags, newBotOk) ==
  LET apiUrl == flags[telegramApiUrlFlag]
      token == flags[telegramTokenFlag]
      chatId == flags[telegramChatIdFlag]
  IN IF Len(token) = 0
     THEN [service |-> s, err |-> "telegram token not set", newBot |-> FALSE]
     ELSE IF Len(chatId) = 0
     THEN [service |-> s, err |-> "telegram chat id not set", newBot |-> FALSE]
     ELSE IF ~newBotOk
     THEN [service |-> s, err |-> "NewBot", newBot |-> TRUE]
     ELSE [service |-> [bot |-> <<[URL |-> apiUrl, Token |-> token]>>,
                        room |-> <<[id |-> chatId]>>],
           err |-> "nil", newBot |-> TRUE]

RECURSIVE initServicesLoop(_, _, _, _, _)
\* the loop of initServices from service i on; newBotOk[i] is the outcome
\* of telebot.NewBot for service i
initServicesLoop(services, i, flags, newBotOk, successCount) ==
  IF i > Len(services)
  THEN [successCount |-> successCount, services |-> services]
  ELSE LET r == TelegramServiceInit(services[i], flags, newBotOk[i])
       IN initServicesLoop([services EXCEPT ![i] = r.service], i + 1, flags,
                           newBotOk,
                           IF r.err # "nil" THEN successCount
                           ELSE successCount + 1)

\* initServices: the count and the slice it returns
initServices(flags, newBotOk) ==
  initServicesLoop(<<EmptyTelegramService>>, 1, flags, newBotOk, 0)

\* the values of the flags: strings as sequences of characters
Tokens == { <<>>, <<"f", "o", "o">>, <<"t">> }
ChatIds == { <<>>, <<"1">>, <<"2">> }
ApiUrls == { <<"u">> }

FlagSets ==
  { [f \in {telegramApiUrlFlag, telegramTokenFlag, telegramChatIdFlag} |->
       CASE f = telegramApiUrlFlag -> u
         [] f = telegramTokenFlag -> t
         [] f = telegramChatIdFlag -> c] :
    u \in ApiUrls, t \in Tokens, c \in ChatIds }

NoFlags ==
  [f \in {telegramApiUrlFlag, telegramTokenFlag, telegramChatIdFlag} |-> <<>>]

\* a call of telegramService.Init(flags)
CallInit(flags, newBotOk) ==
  /\ LET r == TelegramServiceInit(telegramService, flags, newBotOk)
     IN /\ telegramService' = r.service
        /\ initReturn' = [called |-> TRUE, flags |-> flags, err |-> r.err,
                          newBot |-> r.newBot, before |-> telegramService]
  /\ UNCHANGED <<msg, out, sessions, calls, messageBody, dataCalls,
                 initServicesReturn, server>>

\* a call of initServices(flags)
CallInitServices(flags, newBotOk) ==
  /\ LET r == initServices(flags, <<newBotOk>>)
     IN initServicesReturn' = [called |-> TRUE, flags |-> flags,
                               successCount |-> r.successCount,
                               services |-> r.services]
  /\ UNCHANGED <<msg, out, sessions, calls, messageBody, dataCalls,
                 telegramService, initReturn, server>>

\* the process before handleCli
NotStarted == [pc |-> "off", initServicesCount |-> 0, services |-> <<>>]

\* handleCli without the exit on a count of zero
handleCliNoCheck(flags, newBotOk, listenOk) ==
  /\ server.pc = "off"
  /\ LET r == initServices(flags, <<newBotOk>>)
     IN /\ initServicesReturn' = [called |-> TRUE, flags |-> flags,
                                  successCount |-> r.successCount,
                                  services |-> r.services]
        /\ server' = [pc |-> IF listenOk THEN "listening" ELSE "returned",
                      initServicesCount |-> r.successCount,
                      services |-> r.services]
  /\ UNCHANGED <<msg, out, sessions, calls, messageBody, dataCalls,
                 telegramService, initReturn>>

\* handleCli: initServices, log.Fatalln on a count of zero, then
\* CreateSmtpServer and ListenAndServe, which serves (listenOk) or returns
\* an error
handleCli(flags, newBotOk, listenOk) ==
  /\ server.pc = "off"
  /\ LET r == initServices(flags, <<newBotOk>>)
     IN /\ initServicesReturn' = [called |-> TRUE, flags |-> flags,
                                  successCount |-> r.successCount,
                                  services |-> r.services]
        /\ server' = IF r.successCount = 0
                     THEN [NotStarted EXCEPT !.pc = "exited"]
                     ELSE [pc |-> IF listenOk THEN "listening" ELSE "returned",
                           initServicesCount |-> r.successCount,
                           services |-> r.services]
  /\ UNCHANGED <<msg, out, sessions, calls, messageBody, dataCalls,
                 telegramService, initReturn>>

\* the messages sent to the server started by handleCli
AcceptedMessages == { SinglePart(<<"x">>, TRUE, TRUE), Malformed }

\* the server started by handleCli takes message m: Session.Data calls
\* ProcessMessage on it
ServerAccepts(m) ==
  /\ server.pc = "listening"
  /\ Len(dataCalls) < MaxData
  /\ ProcessNext(m)

(***************************************************************************)
(* Specifications.                                                         *)
(***************************************************************************)
ServerIdle ==
  /\ sessions = [s \in SessionIds |-> Closed]
  /\ calls = [i \in ServiceIds |-> <<>>]
  /\ messageBody = [i \in ServiceIds |-> <<>>]
  /\ dataCalls = <<>>
  /\ telegramService = EmptyTelegramService
  /\ initReturn = [called |-> FALSE, flags |-> NoFlags, err |-> "nil",
                   newBot |-> FALSE, before |-> EmptyTelegramService]
  /\ initServicesReturn = [called |-> FALSE, flags |-> NoFlags,
                           successCount |-> 0, services |-> <<>>]
  /\ server = NotStarted

\* the server after CreateSmtpServer
Init ==
  /\ msg = Malformed
  /\ out = NotCalled
  /\ ServerIdle

Next ==
  \/ \E s \in SessionIds : AnonymousLogin(s)
  \/ \E s \in SessionIds, m \in DataMessages : Data(s, m)
  \/ \E s \in SessionIds, ok \in BOOLEAN : Send(s, ok)

Spec == Init /\ [][Next]_vars

\* the start of the program: calls of Init on one TelegramService and
\* calls of initServices
NextStart ==
  \/ \E flags \in FlagSets, newBotOk \in BOOLEAN : CallInit(flags, newBotOk)
  \/ \E flags \in FlagSets, newBotOk \in BOOLEAN : CallInitServices(flags, newBotOk)
  \/ \E flags \in FlagSets, newBotOk \in BOOLEAN, listenOk \in BOOLEAN :
       handleCli(flags, newBotOk, listenOk)
  \/ \E m \in AcceptedMessages : ServerAccepts(m)

SpecStart == Init /\ [][NextStart]_vars

\* ProcessMessage applied once to a single-part message: its body is made
\* of at most MaxChunks chunks with break tags, of at most MaxMarkup chunks
\* with other markup, of at most MaxInline chunks with inline markup or of
\* at most MaxPlain chunks of plain text
InitRender ==
  /\ \/ \E n \in 0..MaxChunks : \E cs \in [1..n -> BodyChunks] :
          msg = SinglePart(Concat(cs), TRUE, TRUE)
     \/ \E n \in 0..MaxMarkup : \E cs \in [1..n -> MarkupChunks] :
          msg = SinglePart(Concat(cs), TRUE, TRUE)
     \/ \E n \in 0..MaxInline : \E cs \in [1..n -> InlineChunks] :
          msg = SinglePart(Concat(cs), TRUE, TRUE)
     \/ \E n \in 0..MaxPlain : \E cs \in [1..n -> PlainChunks] :
          msg = SinglePart(Concat(cs), TRUE, TRUE)
     \/ \E b \in BodyChunks \cup {<<>>} : \E ok \in BOOLEAN, conv \in BOOLEAN :
          msg = SinglePart(b, ok, conv)
  /\ out = NotCalled
  /\ ServerIdle

SpecRender == InitRender /\ [][CallProcessMessage]_vars

\* ProcessMessage applied once to a multipart message of at most MaxParts
\* parts or to a malformed message
InitProc ==
  /\ \/ \E n \in 0..MaxParts : \E ps \in [1..n -> PartSet] : \E closed \in BOOLEAN :
          msg = Multipart(ps, closed, TRUE)
     \/ \E p \in PartSet : msg = Multipart(<<p>>, TRUE, FALSE)
     \/ \E body \in {<<>>, PlainContent, HtmlContent} :
          \E bodyReadOk \in BOOLEAN, convOk \in BOOLEAN :
            msg = SinglePart(body, bodyReadOk, convOk)
     \/ msg = Malformed
  /\ out = NotCalled
  /\ ServerIdle

NextProc == CallProcessMessage

SpecProc == InitProc /\ [][NextProc]_vars

\* one connection: a session and every order of calls of its methods
Connections == {"s1"}

\* the messages of the connection: one with two forms, one that
\* ProcessMessage fails on
SessionMessages ==
  { SinglePart(<<"x", SP>> \o B(<<"y">>), TRUE, TRUE), Malformed }

NextSession ==
  \/ \E s \in Connections : AnonymousLogin(s)
  \/ \E s \in Connections, op \in Commands : SessionCall(s, op)
  \/ \E s \in Connections, m \in SessionMessages : Data(s, m)
  \/ \E s \in Connections, ok \in BOOLEAN : Send(s, ok)

SpecSession == Init /\ [][NextSession]_vars

\* ProcessMessage called on one message after the other
NextSeq == \E m \in SeqMessages : ProcessNext(m)

SpecSeq == Init /\ [][NextSeq]_vars

(***************************************************************************)
(* Properties.                                                             *)
(***************************************************************************)
\* the parts of m with content type ct
PartsOfType(m, ct) == {i \in DOMAIN m.parts : m.parts[i].contentType = ct}

\* the first part of m with content type ct
FirstOfType(m, ct) ==
  CHOOSE i \in PartsOfType(m, ct) : \A j \in PartsOfType(m, ct) : i <= j

HasBothTextTypes(m) ==
  /\ m.wellFormed /\ m.multipart
  /\ PartsOfType(m, TextPlain) # {}
  /\ PartsOfType(m, TextHtml) # {}

\* C1: for a multipart message with a text/plain and a text/html part, in
\* either order, whose extraction succeeds, the body readMultipartBody
\* chooses is the content of the (first) HTML part and nothing else, and
\* the HTML form, which Data sends to the services that are not markdown
\* services, is made of that content alone.
C1_HtmlPartChosen ==
  (out.done /\ HasBothTextTypes(msg) /\ out.err = "nil")
    => LET h == msg.parts[FirstOfType(msg, TextHtml)].content
       IN /\ out.body = h
          /\ out.html = TrimSpace(ReplaceBreaks(h))

\* a plain part with other content comes first, the HTML part second, and
\* the HTML part has been chosen
C1_Witness ==
  /\ out.done /\ out.err = "nil"
  /\ HasBothTextTypes(msg)
  /\ Len(msg.parts) = 2
  /\ msg.parts[1] = Part(TextPlain, PlainContent, TRUE)
  /\ msg.parts[2] = Part(TextHtml, HtmlContent, TRUE)
  /\ out.body = HtmlContent

\* the string service i is to get for Data call d
FormFor(i, d) ==
  IF BackendServices[i].isMarkdownService THEN d.markdownMessage ELSE d.htmlMessage

\* the Send calls of service i for the message with number id
CallsFor(i, id) == {k \in DOMAIN calls[i] : calls[i][k].id = id}

\* C2: when Data has returned without error, every service of the session
\* has been sent exactly one string for the message, the Markdown form if
\* it is a markdown service and the HTML form if not; and no Send call ever
\* carries the form the service did not declare.
C2_OneStringOfDeclaredForm ==
  /\ \A s \in SessionIds :
       (sessions[s].pc = "returned" /\ sessions[s].err = "nil")
         => \A i \in ServiceIds :
              /\ Cardinality(CallsFor(i, sessions[s].id)) = 1
              /\ \A k \in CallsFor(i, sessions[s].id) : calls[i][k].ok
  /\ \A i \in ServiceIds : \A k \in DOMAIN calls[i] :
       calls[i][k].text = FormFor(i, dataCalls[calls[i][k].id])

\* Data has returned without error for a message whose two forms differ,
\* and the markdown recorder holds the Markdown form, the other the HTML form
C2_Witness ==
  \E s \in SessionIds :
    /\ sessions[s].pc = "returned" /\ sessions[s].err = "nil"
    /\ dataCalls[sessions[s].id].htmlMessage # dataCalls[sessions[s].id].markdownMessage
    /\ messageBody[1] = dataCalls[sessions[s].id].htmlMessage
    /\ messageBody[3] = dataCalls[sessions[s].id].markdownMessage

\* white space, as the properties understand it
WhiteSpace == {SP, TAB, CR, LF}

\* s without its leading and trailing white space
Trimmed(s) ==
  LET keep == {i \in DOMAIN s : s[i] \notin WhiteSpace}
  IN IF keep = {} THEN <<>>
     ELSE SubSeq(s, CHOOSE i \in keep : \A j \in keep : i <= j,
                    CHOOSE i \in keep : \A j \in keep : j <= i)

\* the spellings of a break tag, letter case apart: plain, self-closing
\* with a space before the slash, self-closing without
BreakTagSpellings ==
  { <<"<", "b", "r", ">">>,
    <<"<", "b", "r", " ", "/", ">">>,
    <<"<", "b", "r", "/", ">">> }

\* s[i..i+Len(t)-1] is t, letter case apart
SpelledAt(s, i, t) ==
  /\ i + Len(t) - 1 <= Len(s)
  /\ \A k \in 1..Len(t) :
       \/ s[i + k - 1] = t[k]
       \/ <<s[i + k - 1], t[k]>> \in {<<"B", "b">>, <<"R", "r">>}

\* the length of the break tag of spellings tags that starts at position i
\* of s, 0 if there is none
BreakTagAt(s, i, tags) ==
  IF \E t \in tags : SpelledAt(s, i, t)
  THEN Len(CHOOSE t \in tags : SpelledAt(s, i, t))
  ELSE 0

RECURSIVE BreaksAsNewlines(_, _, _)
\* s from position i on with every break tag of spellings tags replaced by
\* one newline and every other character kept
BreaksAsNewlines(s, i, tags) ==
  IF i > Len(s) THEN <<>>
  ELSE IF BreakTagAt(s, i, tags) > 0
       THEN <<LF>> \o BreaksAsNewlines(s, i + BreakTagAt(s, i, tags), tags)
       ELSE <<s[i]>> \o BreaksAsNewlines(s, i + 1, tags)

\* C3: the HTML form is the extracted body with every break tag replaced
\* by a newline, then trimmed, all other characters kept; the Markdown form
\* is the conversion of exactly that HTML form.
C3_HtmlFormIsNormalizedBody ==
  (out.done /\ out.err = "nil")
    => /\ out.html = Trimmed(BreaksAsNewlines(out.body, 1, BreakTagSpellings))
       /\ out.markdown = ConvertString(out.html)

\* number of occurrences of character c in s
Count(c, s) == Cardinality({i \in DOMAIN s : s[i] = c})

\* the maximal runs of white space of s
Runs(s) ==
  LET starts == {a \in DOMAIN s :
                   s[a] \in WhiteSpace /\ (a = 1 \/ s[a - 1] \notin WhiteSpace)}
      ends == {b \in DOMAIN s :
                 s[b] \in WhiteSpace /\ (b = Len(s) \/ s[b + 1] \notin WhiteSpace)}
  IN { SubSeq(s, a, CHOOSE b \in ends : b >= a /\ \A c \in ends : c >= a => b <= c) :
         a \in starts }

\* text without markup: letters and white space
IsPlainText(s) == \A i \in DOMAIN s : s[i] \in {"x"} \cup WhiteSpace

\* a single-part message ProcessMessage has processed without error
ProcessedSinglePart ==
  out.done /\ out.err = "nil" /\ msg.wellFormed /\ ~msg.multipart

RECURSIVE CrLfAsLf(_)
\* s with a single LF in place of each CR LF
CrLfAsLf(s) ==
  IF s = <<>> THEN <<>>
  ELSE IF Len(s) >= 2 /\ s[1] = CR /\ s[2] = LF
       THEN <<LF>> \o CrLfAsLf(SubSeq(s, 3, Len(s)))
       ELSE <<s[1]>> \o CrLfAsLf(SubSeq(s, 2, Len(s)))

SpacedSpellings ==
  { <<"<", "b", "r", ">">>, <<"<", "b", "r", " ", "/", ">">> }

\* the positions of s where a break tag of spellings tags starts
TagStarts(s, tags) == {i \in DOMAIN s : BreakTagAt(s, i, tags) > 0}

\* the positions of s that hold text: no white space, no break tag
Solid(s, tags) ==
  LET starts == TagStarts(s, tags)
      inTag == UNION {i..(i + BreakTagAt(s, i, tags) - 1) : i \in starts}
  IN {j \in DOMAIN s : s[j] \notin WhiteSpace /\ j \notin inTag}

\* the break tags of s with text somewhere before and somewhere after
InteriorTags(s, tags) ==
  LET solid == Solid(s, tags)
  IN {i \in TagStarts(s, tags) :
        (\E a \in solid : a < i) /\ (\E b \in solid : b > i)}

\* s has no <h1> heading, which the conversion sets on a line of its own
NoHeading(s) == \A i \in DOMAIN s : ~SpelledAt(s, i, <<"<", "h", "1", ">">>)

\* a single-part body with break tags spelled <br> or <br /> only, no
\* other newline and no heading, processed without error
OnlySpacedBreaks ==
  /\ ProcessedSinglePart
  /\ Count(CR, msg.body) = 0 /\ Count(LF, msg.body) = 0
  /\ NoHeading(msg.body)
  /\ TagStarts(msg.body, BreakTagSpellings) = TagStarts(msg.body, SpacedSpellings)

C6_SelfClosingBreakReplaced ==
  (/\ ProcessedSinglePart
   /\ \E i \in DOMAIN msg.body : SpelledAt(msg.body, i, <<"<", "b", "r", "/", ">">>))
    => out.html = Trimmed(BreaksAsNewlines(msg.body, 1, BreakTagSpellings))

\* s neither begins nor ends with white space
NoOuterWhiteSpace(s) ==
  s = <<>> \/ (s[1] \notin WhiteSpace /\ s[Len(s)] \notin WhiteSpace)

\* C7: for every message processed without error, neither form begins or
\* ends with white space.
C7_FormsTrimmed ==
  (out.done /\ out.err = "nil")
    => NoOuterWhiteSpace(out.html) /\ NoOuterWhiteSpace(out.markdown)

\* a body that begins with a break tag and ends with CR LF, with text in
\* between, has been processed
C7_Witness ==
  /\ ProcessedSinglePart
  /\ 1 \in TagStarts(msg.body, SpacedSpellings)
  /\ Len(msg.body) >= 2
  /\ msg.body[Len(msg.body) - 1] = CR /\ msg.body[Len(msg.body)] = LF
  /\ out.html # <<>> /\ out.markdown # <<>>

NoTextPart(m) ==
  /\ m.wellFormed /\ m.multipart /\ m.closed
  /\ PartsOfType(m, TextPlain) = {} /\ PartsOfType(m, TextHtml) = {}

\* C10: for a multipart message with no text/plain and no text/html part
\* ProcessMessage returns an error and Data sends nothing to any service.
C10_NoContentIsAnError ==
  \A s \in SessionIds :
    (/\ sessions[s].pc \in {"sending", "returned"}
     /\ NoTextPart(dataCalls[sessions[s].id].data))
      => /\ sessions[s].err # "nil"
         /\ \A i \in ServiceIds : CallsFor(i, sessions[s].id) = {}

\* C11: when the conversion to Markdown fails, ProcessMessage returns the
\* error and two empty strings; the unconverted HTML form is not returned
\* with the error.
C11_NoOutputOnConvertError ==
  (out.done /\ out.err = "convert")
    => out.html = <<>> /\ out.markdown = <<>>

\* the errors of ProcessMessage: message.Read, a part or body read, the
\* conversion
ProcessErrors == {"parse", "read", "convert"}

\* RecorderService.messageBody is the last string the recorder was sent
RecordersHoldLastSent ==
  \A i \in ServiceIds :
    BackendServices[i].kind = "recorder"
      => messageBody[i] = IF calls[i] = <<>> THEN <<>>
                          ELSE calls[i][Len(calls[i])].text

\* C12: if ProcessMessage fails for a message, Data returns that error and
\* calls Send on no service for it; the services hold what earlier
\* messages left.
C12_NoSendOnProcessError ==
  /\ \A id \in DOMAIN dataCalls :
       dataCalls[id].err # "nil"
         => /\ dataCalls[id].err \in ProcessErrors
            /\ \A i \in ServiceIds : CallsFor(i, id) = {}
  /\ \A s \in SessionIds :
       (sessions[s].id # 0 /\ dataCalls[sessions[s].id].err # "nil")
         => /\ sessions[s].pc = "returned"
            /\ sessions[s].err = dataCalls[sessions[s].id].err
  /\ RecordersHoldLastSent

\* after a message that went to all services, Data has returned the
\* conversion error of a second message, and the recorders still hold the
\* forms of the first
C12_Witness ==
  \E s \in SessionIds :
    /\ Len(dataCalls) = 2
    /\ sessions[s].id = 2 /\ sessions[s].pc = "returned"
    /\ sessions[s].err = "convert"
    /\ dataCalls[1].htmlMessage # dataCalls[1].markdownMessage
    /\ messageBody[1] = dataCalls[1].htmlMessage
    /\ messageBody[3] = dataCalls[1].markdownMessage

\* Data call j failed: in ProcessMessage or in a Send
Failed(j) ==
  \/ dataCalls[j].err # "nil"
  \/ \E i \in ServiceIds : \E k \in CallsFor(i, j) : ~calls[i][k].ok

\* every string sent for Data call id is the string a server that has
\* handled no other message sends that service for the message
SentAsFresh(id) ==
  LET fresh == ProcessMessage(dataCalls[id].data)
  IN \A i \in ServiceIds : \A k \in CallsFor(i, id) :
       calls[i][k].text = IF BackendServices[i].isMarkdownService
                          THEN fresh.markdown ELSE fresh.html

\* C13: when Data has returned without error for a message that came
\* after a failed Data call, every service has been sent, once, exactly the
\* string a server without the failed calls sends for it; and every string
\* sent after a failed call is such a string.
C13_FailedCallsLeaveNoTrace ==
  /\ \A s \in SessionIds :
       (/\ sessions[s].pc = "returned" /\ sessions[s].err = "nil"
        /\ \E j \in 1..(sessions[s].id - 1) : Failed(j))
         => \A i \in ServiceIds : Cardinality(CallsFor(i, sessions[s].id)) = 1
  /\ \A id \in DOMAIN dataCalls :
       (\E j \in 1..(id - 1) : Failed(j)) => SentAsFresh(id)

\* a session whose first message failed in a Send to the second service
\* has then delivered a message with two different forms to all services
C13_Witness ==
  \E s \in SessionIds :
    /\ Len(dataCalls) = 2
    /\ sessions[s].id = 2 /\ sessions[s].pc = "returned" /\ sessions[s].err = "nil"
    /\ \E k \in CallsFor(2, 1) : ~calls[2][k].ok
    /\ Len(calls[1]) = 2 /\ Len(calls[3]) = 1
    /\ messageBody[1] # messageBody[3]
    /\ messageBody[1] = ProcessMessage(dataCalls[2].data).html
    /\ messageBody[3] = ProcessMessage(dataCalls[2].data).markdown

\* both sessions have had a Data call
BothSessionsUsed == \A s \in SessionIds : sessions[s].id # 0

\* C14: when Data calls run on two sessions of the Backend, under every
\* interleaving of their Sends each call goes through the services in
\* order, sending each service one string for its message, the string a
\* sequential run sends; when Data returns without error every service has
\* been sent the string of the message exactly once.
C14_SessionsDoNotInterfere ==
  BothSessionsUsed
    => \A s \in SessionIds :
         LET id == sessions[s].id
         IN /\ SentAsFresh(id)
            /\ sessions[s].pc = "sending"
                 => \A i \in ServiceIds :
                      Cardinality(CallsFor(i, id))
                        = IF i < sessions[s].next THEN 1 ELSE 0
            /\ (sessions[s].pc = "returned" /\ sessions[s].err = "nil")
                 => \A i \in ServiceIds :
                      /\ Cardinality(CallsFor(i, id)) = 1
                      /\ \A k \in CallsFor(i, id) : calls[i][k].ok

\* two Data calls for messages with different forms have both returned
\* without error, and the one that reached the first service first reached
\* the last service second
C14_Witness ==
  /\ Len(dataCalls) = 2
  /\ \A s \in SessionIds :
       sessions[s].id # 0 /\ sessions[s].pc = "returned" /\ sessions[s].err = "nil"
  /\ dataCalls[1].htmlMessage # dataCalls[2].htmlMessage
  /\ Len(calls[1]) = 2 /\ Len(calls[3]) = 2
  /\ calls[1][1].id # calls[3][1].id

\* the input is not a well-formed message: message.Read fails on it, or it
\* is a multipart message that ends without its closing boundary
NotWellFormed(m) == ~m.wellFormed \/ (m.multipart /\ ~m.closed)

\* C15: for every input that is not a well-formed message, a multipart
\* message cut off before or after any of its parts included, the
\* extraction fails and no body is produced.
C15_TruncatedInputFails ==
  (out.done /\ NotWellFormed(msg))
    => out.err # "nil" /\ out.body = <<>> /\ out.html = <<>>

\* the inline elements and the delimiter Markdown has for each
InlineElements ==
  { [open |-> <<"<", "b", ">">>, close |-> <<"<", "/", "b", ">">>,
     mark |-> <<"*", "*">>],
    [open |-> <<"<", "s", "t", "r", "o", "n", "g", ">">>,
     close |-> <<"<", "/", "s", "t", "r", "o", "n", "g", ">">>,
     mark |-> <<"*", "*">>],
    [open |-> <<"<", "i", ">">>, close |-> <<"<", "/", "i", ">">>,
     mark |-> <<"_">>],
    [open |-> <<"<", "e", "m", ">">>, close |-> <<"<", "/", "e", "m", ">">>,
     mark |-> <<"_">>] }

H1Open == <<"<", "h", "1", ">">>
H1Close == <<"<", "/", "h", "1", ">">>

\* t stands in s at position i
At(s, i, t) == i + Len(t) - 1 <= Len(s) /\ SubSeq(s, i, i + Len(t) - 1) = t

\* the position of the first "<" of s at or after position j, 0 if none
NextOpen(s, j) ==
  LET c == {k \in j..Len(s) : s[k] = "<"}
  IN IF c = {} THEN 0 ELSE CHOOSE k \in c : \A l \in c : k <= l

\* s[from..) begins with a word (no white space, no markup) followed by
\* the tag close
WordThen(s, from, close) ==
  LET c == NextOpen(s, from)
  IN /\ c > from
     /\ At(s, c, close)
     /\ \A k \in from..(c - 1) : s[k] \notin WhiteSpace \cup {">"}

\* the inline elements around one word that start at position i of s
ElementsAt(s, i) ==
  IF s[i] # "<" THEN {}
  ELSE {e \in InlineElements :
          At(s, i, e.open) /\ WordThen(s, i + Len(e.open), e.close)}

\* the last position of element e that starts at position i of s
ElementEnd(s, i, e) == NextOpen(s, i + Len(e.open)) + Len(e.close) - 1

\* words and inline elements around one word, each element with white
\* space or an end of s on both sides, separated by one space or by one or
\* two CR LF
DelimitedInline(s) ==
  /\ \A i \in DOMAIN s : \A e \in ElementsAt(s, i) :
       /\ i = 1 \/ s[i - 1] \in WhiteSpace
       /\ ElementEnd(s, i, e) = Len(s) \/ s[ElementEnd(s, i, e) + 1] \in WhiteSpace
  /\ \A j \in DOMAIN s :
       s[j] \in {"<", ">"}
         => \E i \in 1..j : \E e \in ElementsAt(s, i) : j <= ElementEnd(s, i, e)
  /\ Runs(s) \subseteq {<<SP>>, <<CR, LF>>, <<CR, LF, CR, LF>>}

RECURSIVE InlineAsMarkdown(_, _)
\* s from position i on with the tags of every inline element replaced by
\* its delimiter
InlineAsMarkdown(s, i) ==
  IF i > Len(s) THEN <<>>
  ELSE IF ElementsAt(s, i) # {}
       THEN LET e == CHOOSE e \in ElementsAt(s, i) : TRUE
                last == ElementEnd(s, i, e)
            IN e.mark \o SubSeq(s, i + Len(e.open), last - Len(e.close)) \o e.mark
                 \o InlineAsMarkdown(s, last + 1)
       ELSE <<s[i]>> \o InlineAsMarkdown(s, i + 1)

\* the length of the <h1> heading of one word s begins with, 0 if none
HeadingLen(s) ==
  IF At(s, 1, H1Open) /\ WordThen(s, Len(H1Open) + 1, H1Close)
  THEN NextOpen(s, Len(H1Open) + 1) + Len(H1Close) - 1
  ELSE 0

\* s after its heading
AfterHeading(s) == SubSeq(s, HeadingLen(s) + 1, Len(s))

\* s is all white space or begins with one or two CR LF and then text
LineBreakThenText(s) ==
  \/ Trimmed(s) = <<>>
  \/ \E b \in {<<CR, LF>>, <<CR, LF, CR, LF>>} :
       At(s, 1, b) /\ Len(s) > Len(b) /\ s[Len(b) + 1] \notin WhiteSpace

\* a body as in the claim: an optional <h1> heading, followed by one or
\* two CR LF if text follows, then words and inline elements
InlineBody(s) ==
  /\ HeadingLen(s) > 0 => LineBreakThenText(AfterHeading(s))
  /\ DelimitedInline(Trimmed(AfterHeading(s)))

\* the Markdown the claim gives for such a body: "# " and the heading text,
\* a blank line, then the text with the delimiters for the tags and LF for
\* CR LF
InlineMarkdown(s) ==
  LET text == CrLfAsLf(InlineAsMarkdown(Trimmed(AfterHeading(s)), 1))
      heading == <<"#", SP>>
                   \o SubSeq(s, Len(H1Open) + 1, HeadingLen(s) - Len(H1Close))
  IN IF HeadingLen(s) = 0 THEN text
     ELSE IF text = <<>> THEN heading
     ELSE heading \o <<LF, LF>> \o text

C17_MissingFlagErrors ==
  initReturn.called
    => /\ initReturn.flags[telegramTokenFlag] = <<>>
            => /\ initReturn.err = "telegram token not set"
               /\ ~initReturn.newBot
       /\ (/\ initReturn.flags[telegramTokenFlag] # <<>>
           /\ initReturn.flags[telegramChatIdFlag] = <<>>)
            => /\ initReturn.err = "telegram chat id not set"
               /\ ~initReturn.newBot

\* Init called with neither token nor chat id: the error is that of the
\* token
C17_Witness ==
  /\ initReturn.called
  /\ initReturn.flags[telegramTokenFlag] = <<>>
  /\ initReturn.flags[telegramChatIdFlag] = <<>>
  /\ initReturn.err = "telegram token not set"

\* C18: after a successful Init the bot and the room are set, the id of
\* the room being the chat id flag; after a failed Init the bot and the
\* room are as they were before the call.
C18_InitSetsBotAndRoomOrNothing ==
  initReturn.called
    => IF initReturn.err = "nil"
       THEN /\ telegramService.bot # Nil
            /\ telegramService.room = <<[id |-> initReturn.flags[telegramChatIdFlag]]>>
       ELSE telegramService = initReturn.before

\* on a service that has its bot and its room, an Init with another chat
\* id has failed in telebot.NewBot
C18_Witness ==
  /\ initReturn.called
  /\ initReturn.err = "NewBot"
  /\ initReturn.before.bot # Nil
  /\ initReturn.before.room # <<[id |-> initReturn.flags[telegramChatIdFlag]]>>
  /\ telegramService = initReturn.before

\* C19: every service of the slice initServices returns had Init succeed,
\* so the length of the slice is the count it returns with it.
C19_ReturnedServicesInitialized ==
  initServicesReturn.called
    => /\ Len(initServicesReturn.services) = initServicesReturn.successCount
       /\ \A i \in DOMAIN initServicesReturn.services :
            /\ initServicesReturn.services[i].bot # Nil
            /\ initServicesReturn.services[i].room # Nil

\* m is a multipart message with an HTML part, and the parts up to its
\* first HTML part can be read
ReadableUpToHtml(m) ==
  /\ m.wellFormed /\ m.multipart
  /\ PartsOfType(m, TextHtml) # {}
  /\ \A i \in 1..FirstOfType(m, TextHtml) :
       m.parts[i].contentType \in {TextPlain, TextHtml} => m.parts[i].readOk

\* C20: readMultipartBody stops at the first text/html part: it returns
\* no error and the body is the content of that part, whatever follows it: parts that cannot be
\* read, other HTML or plain parts, or the end of the input without the
\* closing boundary.
C20_StopsAtFirstHtmlPart ==
  (out.done /\ ReadableUpToHtml(msg))
    => /\ out.err \notin {"parse", "read"}
       /\ out.body = msg.parts[FirstOfType(msg, TextHtml)].content

\* the HTML part is followed by a part that cannot be read and by an HTML
\* part with another content
C20_Witness ==
  /\ out.done /\ ReadableUpToHtml(msg)
  /\ Len(msg.parts) = 3
  /\ msg.parts[1] = Part(TextHtml, HtmlContent, TRUE)
  /\ ~msg.parts[2].readOk
  /\ msg.parts[3] = Part(TextHtml, PlainContent, TRUE)
  /\ out.err = "nil"
  /\ out.body = HtmlContent

IsTextPart(p) == p.contentType \in {TextPlain, TextHtml}

\* m without its parts that are neither text/plain nor text/html
TextPartsOnly(m) == [m EXCEPT !.parts = SelectSeq(m.parts, IsTextPart)]

\* the extraction of the body has returned without error
Extracted == out.done /\ out.err \notin {"parse", "read"}

\* C21: in a multipart message the parts that are neither text/plain nor
\* text/html, nested multipart parts included, are skipped: the outcome of
\* the extraction is the one of the message without them, and the body is
\* made of contents of text parts only.
C21_OtherPartsSkipped ==
  (out.done /\ msg.wellFormed /\ msg.multipart)
    => /\ out.err = ProcessMessage(TextPartsOnly(msg)).err
       /\ out.body = readMessageBody(TextPartsOnly(msg)).body
       /\ (PartsOfType(msg, TextPlain) \cup PartsOfType(msg, TextHtml) = {}
             => out.body = <<>>)

\* a nested multipart part with text in it, a plain part and an image: the
\* body is the content of the plain part
C21_Witness ==
  /\ Extracted
  /\ Len(msg.parts) = 3
  /\ msg.parts[1] = Part("multipart/mixed", HtmlContent, TRUE)
  /\ msg.parts[2] = Part(TextPlain, PlainContent, TRUE)
  /\ msg.parts[3] = Part("image/png", PlainContent, TRUE)
  /\ out.body = PlainContent

\* a multipart message with no text/html part
NoHtmlPart(m) == m.wellFormed /\ m.multipart /\ PartsOfType(m, TextHtml) = {}

\* C22 as stated: for a multipart message with several text/plain parts
\* and no text/html part the body is the content of the first plain part.
C22_FirstPlainPartOnly ==
  (/\ Extracted /\ NoHtmlPart(msg)
   /\ Cardinality(PartsOfType(msg, TextPlain)) >= 2)
    => out.body = msg.parts[FirstOfType(msg, TextPlain)].content

\* the length of the contents of the text/plain parts of m before part i
PlainBefore(m, i) ==
  LET before == {j \in PartsOfType(m, TextPlain) : j < i}
      RECURSIVE Sum(_)
      Sum(js) == IF js = {} THEN 0
                 ELSE LET j == CHOOSE j \in js : TRUE
                      IN Len(m.parts[j].content) + Sum(js \ {j})
  IN Sum(before)

\* C22 amended: for a multipart message with several text/plain parts and
\* no text/html part the body holds the content of every plain part: it
\* begins with the content of the first one, and the content of each later
\* one stands right after the contents of those before it.
C22_EveryPlainPartInBody ==
  (/\ Extracted /\ NoHtmlPart(msg)
   /\ Cardinality(PartsOfType(msg, TextPlain)) >= 2)
    => /\ Len(out.body) = PlainBefore(msg, Len(msg.parts) + 1)
       /\ \A i \in PartsOfType(msg, TextPlain) :
            SubSeq(out.body, PlainBefore(msg, i) + 1,
                   PlainBefore(msg, i) + Len(msg.parts[i].content))
              = msg.parts[i].content

\* two plain parts with different contents: the body holds both
C22_Witness ==
  /\ Extracted /\ NoHtmlPart(msg)
  /\ Len(msg.parts) = 2
  /\ msg.parts[1] = Part(TextPlain, PlainContent, TRUE)
  /\ msg.parts[2] = Part(TextPlain, HtmlContent, TRUE)
  /\ out.body = PlainContent \o HtmlContent

RECURSIVE PlainContents(_)
\* the contents of the text/plain parts among parts, in order, one after
\* the other
PlainContents(parts) ==
  IF parts = <<>> THEN <<>>
  ELSE IF Head(parts).contentType = TextPlain
       THEN Head(parts).content \o PlainContents(Tail(parts))
       ELSE PlainContents(Tail(parts))

\* C23: for a multipart message with no text/html part the body is the
\* concatenation, in order and with no separator, of the contents of all
\* its text/plain parts.
C23_PlainPartsConcatenated ==
  (Extracted /\ NoHtmlPart(msg)) => out.body = PlainContents(msg.parts)

\* two plain parts with an image between them
C23_Witness ==
  /\ Extracted /\ NoHtmlPart(msg)
  /\ Len(msg.parts) = 3
  /\ msg.parts[1] = Part(TextPlain, HtmlContent, TRUE)
  /\ msg.parts[2].contentType = "image/png"
  /\ msg.parts[3] = Part(TextPlain, PlainContent, TRUE)
  /\ out.body = HtmlContent \o PlainContent

\* the text parts of m
TextParts(m) == PartsOfType(m, TextPlain) \cup PartsOfType(m, TextHtml)

\* C24: for a multipart message with exactly one text part among any
\* number of other parts, in any position, the body is the content of
\* that part.
C24_OnlyTextPartChosen ==
  (/\ Extracted /\ msg.wellFormed /\ msg.multipart
   /\ Cardinality(TextParts(msg)) = 1)
    => \A i \in TextParts(msg) : out.body = msg.parts[i].content

\* a plain part between an image and a nested multipart part
C24_Witness ==
  /\ Extracted /\ msg.wellFormed /\ msg.multipart
  /\ TextParts(msg) = {2}
  /\ Len(msg.parts) = 3
  /\ msg.parts[2].contentType = TextPlain
  /\ out.body = msg.parts[2].content
  /\ out.body # <<>>

\* a single-part message whose body can be read and converted
PlainlyProcessed(d) ==
  d.data.wellFormed /\ ~d.data.multipart /\ d.data.bodyReadOk /\ d.data.convOk

\* C25: for a message that is not multipart the whole body is the content,
\* and the break tags are replaced and the conversion is made whatever
\* Content-Type the message declares: two such messages with the same body
\* yield the same two forms.
C25_DeclaredTypeIgnored ==
  /\ \A a \in DOMAIN dataCalls :
       PlainlyProcessed(dataCalls[a])
         => /\ dataCalls[a].err = "nil"
            /\ dataCalls[a].htmlMessage
                 = Trimmed(BreaksAsNewlines(dataCalls[a].data.body, 1, SpacedSpellings))
            /\ dataCalls[a].markdownMessage = ConvertString(dataCalls[a].htmlMessage)
  /\ \A a, b \in DOMAIN dataCalls :
       (/\ PlainlyProcessed(dataCalls[a]) /\ PlainlyProcessed(dataCalls[b])
        /\ dataCalls[a].data.body = dataCalls[b].data.body)
         => /\ dataCalls[a].htmlMessage = dataCalls[b].htmlMessage
            /\ dataCalls[a].markdownMessage = dataCalls[b].markdownMessage

\* the body with markup has been processed as text/plain, as text/html and
\* with no Content-Type, with the same two forms, which differ
C25_Witness ==
  /\ Len(dataCalls) = 3
  /\ {dataCalls[a].data.contentType : a \in 1..3} = {"", TextPlain, TextHtml}
  /\ \A a \in 1..3 :
       /\ dataCalls[a].data.body = MarkupBody
       /\ dataCalls[a].htmlMessage = dataCalls[1].htmlMessage
       /\ dataCalls[a].markdownMessage = dataCalls[1].markdownMessage
  /\ dataCalls[1].htmlMessage # dataCalls[1].markdownMessage

SendFailed(i, id) == \E k \in CallsFor(i, id) : ~calls[i][k].ok

\* C26: for each message Data calls Send on the services in the order of
\* the list, at most once each; at the first Send that fails Data returns
\* that error and no later service gets a call for the message, while the
\* services before it keep the message they were sent.
C26_SendsInOrderStopAtError ==
  /\ \A id \in DOMAIN dataCalls : \A i \in ServiceIds :
       /\ Cardinality(CallsFor(i, id)) <= 1
       /\ (i > 1 /\ CallsFor(i, id) # {})
            => (CallsFor(i - 1, id) # {} /\ ~SendFailed(i - 1, id))
  /\ \A s \in SessionIds : \A i \in ServiceIds :
       (sessions[s].id # 0 /\ SendFailed(i, sessions[s].id))
         => /\ sessions[s].pc = "returned" /\ sessions[s].err = "send"
            /\ \A j \in ServiceIds :
                 Cardinality(CallsFor(j, sessions[s].id))
                   = IF j <= i THEN 1 ELSE 0
  /\ \A s \in SessionIds :
       sessions[s].pc = "sending"
         => \A j \in ServiceIds :
              Cardinality(CallsFor(j, sessions[s].id))
                = IF j < sessions[s].next THEN 1 ELSE 0
  /\ RecordersHoldLastSent

\* the Send to the second service has failed for a message: Data has
\* returned the error, the first service holds the HTML form of the
\* message and the third has been sent nothing
C26_Witness ==
  \E s \in SessionIds :
    /\ sessions[s].id # 0 /\ SendFailed(2, sessions[s].id)
    /\ sessions[s].pc = "returned" /\ sessions[s].err = "send"
    /\ dataCalls[sessions[s].id].htmlMessage # <<>>
    /\ messageBody[1] = dataCalls[sessions[s].id].htmlMessage
    /\ calls[3] = <<>> /\ messageBody[3] = <<>>

\* the services of the server that Init has set up
Initialized == {i \in DOMAIN server.services : server.services[i].bot # Nil}

\* C28: handleCli gets to CreateSmtpServer and ListenAndServe only if
\* initServices counted at least one service; on a count of zero the
\* process exits before them, so a message is taken only by a server with
\* an initialized service.
C28_ServerNeedsInitializedService ==
  /\ server.pc \in {"listening", "returned"}
       => (server.initServicesCount >= 1 /\ Initialized # {})
  /\ server.pc = "exited"
       => (server.services = <<>> /\ server.initServicesCount = 0)
  /\ dataCalls # <<>> => (server.pc = "listening" /\ Initialized # {})

\* handleCli ran with a flag missing: initServices made one service and
\* counted none, the process has exited and no message has been taken
C28_Witness ==
  /\ server.pc = "exited"
  /\ initServicesReturn.called
  /\ Len(initServicesReturn.services) = 1
  /\ initServicesReturn.successCount = 0
  /\ dataCalls = <<>>

\* the errors ProcessMessage returns once the body has been extracted
AfterExtraction == {"nil", "convert"}

\* C30: IsNotMultipartError never leaves readMessageBody: for a message
\* that is not multipart the whole body is read instead, for a multipart
\* message a result of readMultipartBody without error is returned as it
\* is, empty or not, and any other error is returned with an empty body.
C30_SentinelNeverEscapes ==
  out.done
    => /\ out.err # "IsNotMultipartError"
       /\ ~msg.wellFormed => (out.body = <<>> /\ out.err = "parse")
       /\ (msg.wellFormed /\ ~msg.multipart)
            => IF msg.bodyReadOk
               THEN out.body = msg.body /\ out.err \in AfterExtraction
               ELSE out.body = <<>> /\ out.err = "read"
       /\ (msg.wellFormed /\ msg.multipart)
            => LET mp == readMultipartBody(msg)
               IN IF mp.err = "nil"
                  THEN out.body = mp.body /\ out.err \in AfterExtraction
                  ELSE out.body = <<>> /\ out.err = mp.err
       /\ out.err \notin AfterExtraction
            => (out.body = <<>> /\ out.html = <<>> /\ out.markdown = <<>>)

\* readMultipartBody gave IsNotMultipartError for a message with a body,
\* and the whole body has been taken without error
C30_Witness ==
  /\ out.done /\ msg.wellFormed /\ ~msg.multipart
  /\ readMultipartBody(msg).err = "IsNotMultipartError"
  /\ msg.body # <<>> /\ out.body = msg.body
  /\ out.err = "nil"

\* C29: a session made by AnonymousLogin has the services given to
\* CreateSmtpServer; AuthPlain, Mail, Rcpt, Reset and Logout return nil
\* and change nothing, so that after any calls of them Data sends what it
\* sends with none: each service the form of the message it takes, once,
\* and nothing for a message ProcessMessage fails on.
C29_CommandsLeaveDataAlone ==
  /\ \A s \in SessionIds :
       /\ sessions[s].pc # "closed" => sessions[s].services = BackendServices
       /\ \A k \in DOMAIN sessions[s].log : sessions[s].log[k].err = "nil"
       /\ (sessions[s].pc = "returned" /\ sessions[s].id # 0)
            => IF sessions[s].err = "nil"
               THEN \A i \in ServiceIds :
                      /\ Cardinality(CallsFor(i, sessions[s].id)) = 1
                      /\ ~SendFailed(i, sessions[s].id)
               ELSE \/ sessions[s].err = dataCalls[sessions[s].id].err
                    \/ /\ sessions[s].err = "send"
                       /\ \E i \in ServiceIds : SendFailed(i, sessions[s].id)
  /\ \A id \in DOMAIN dataCalls :
       /\ SentAsFresh(id)
       /\ dataCalls[id].err # "nil" => \A i \in ServiceIds : CallsFor(i, id) = {}
  /\ RecordersHoldLastSent

\* after Mail, a Data call, a Reset and a second Data call, which has
\* sent every service its form of the second message
C29_Witness ==
  \E s \in SessionIds :
    /\ Len(sessions[s].log) = 2
    /\ sessions[s].log[1].op = "Mail" /\ sessions[s].log[1].after = 0
    /\ sessions[s].log[2].op = "Reset" /\ sessions[s].log[2].after = 1
    /\ sessions[s].id = 2 /\ sessions[s].pc = "returned" /\ sessions[s].err = "nil"
    /\ \A i \in ServiceIds : Len(calls[i]) = 2
    /\ messageBody[1] = ProcessMessage(dataCalls[2].data).html
    /\ messageBody[3] = ProcessMessage(dataCalls[2].data).markdown
    /\ messageBody[1] # messageBody[3]

====
